---- MODULE Spec2Model ----
(***************************************************************************)
(* Twins testcase generator (scripts/twins_generator/generator.py).        *)
(*                                                                         *)
(* Lists are sequences; a partition is a sequence of blocks, a block a     *)
(* sequence of node indices; a scenario is <<leader, partition>>; a        *)
(* testcase is a sequence of scenarios, one per round.                     *)
(***************************************************************************)
EXTENDS Integers, Sequences, FiniteSets, TLC

\* ---------------------------------------------------------------- bounds
MaxNodes      == 7
MaxPartitions == 2
MaxRounds     == 2
MaxPerFile    == 3
MaxMachines   == 2
MaxWorkers    == 2
MaxTestcases  == 16
MaxProcs      == 4
MaxN          == 6

VARIABLES
    cfg,         \* the arguments every machine is launched with
    pc,          \* per machine index: where that machine's program is
    enumerated,  \* per machine index: make_partitions has been entered
    generated,   \* per machine index: number of testcases the pipeline yields
    chunks,      \* per machine index: print()'s chunks, one per worker
    worker,      \* per machine index, per worker: the _print process
    files,       \* the file system: path -> list of records
    writes,      \* history of every file write
    spc, sn, sk, sparts, scursor,   \* a call of stirling2(n, k), its result scanned
    fpc, fgen, ftestcase, frecord   \* a call of Format.make(generator, testcase)

genVars  == <<cfg, pc, enumerated, generated, chunks, worker, files, writes>>
stirVars == <<spc, sn, sk, sparts, scursor>>
fmtVars  == <<fpc, fgen, ftestcase, frecord>>
vars     == <<genVars, stirVars, fmtVars>>

\* ---------------------------------------------------------------- helpers
\* [x for x in range(n)]
Range0(n) == [i \in 1..n |-> i - 1]

\* math.factorial
RECURSIVE factorial(_)
factorial(n) == IF n <= 0 THEN 1 ELSE n * factorial(n - 1)

\* b ** e on integers, e >= 0
RECURSIVE Pow(_, _)
Pow(b, e) == IF e = 0 THEN 1 ELSE b * Pow(b, e - 1)

\* math.ceil(a / b) for a >= 0, b > 0
ceil(a, b) == (a + b - 1) \div b

\* list membership: x in s
In(x, s) == \E i \in DOMAIN s : s[i] = x

\* s[:n] and s[n:] for 0 <= n
Take(s, n) == SubSeq(s, 1, IF n < Len(s) THEN n ELSE Len(s))
Drop(s, n) == SubSeq(s, (IF n < Len(s) THEN n ELSE Len(s)) + 1, Len(s))

\* ------------------------------------------------- Configs and Generator
\* Configs.__init__: the outcome of the value checks (all inputs are ints)
ConfigsInit(number_of_nodes, number_of_partitions, number_of_rounds) ==
    IF number_of_nodes > 0 /\ number_of_partitions > 0 /\ number_of_rounds > 0
    THEN "ok" ELSE "ValueError"

\* self.f
F(number_of_nodes) == (number_of_nodes - 1) \div 3

\* Generator.__init__: the outcome of the value checks, given valid Configs
GeneratorInit(c, machine_index) ==
    IF ~ (c.testcases_per_file > 0 /\ machine_index > 0
          /\ c.number_of_machines >= machine_index)
    THEN "ValueError"
    ELSE IF c.number_of_nodes + F(c.number_of_nodes) < c.number_of_partitions
    THEN "ValueError"
    ELSE "ok"

\* The Generator object built from the arguments c on machine machine_index
Generator(c, machine_index) ==
    [ configs |-> [ number_of_nodes      |-> c.number_of_nodes,
                    number_of_partitions |-> c.number_of_partitions,
                    number_of_rounds     |-> c.number_of_rounds ],
      testcases_per_file |-> c.testcases_per_file,
      machine_index      |-> machine_index,
      number_of_machines |-> c.number_of_machines,
      f     |-> F(c.number_of_nodes),
      nodes |-> Range0(c.number_of_nodes + F(c.number_of_nodes)) ]

target_nodes_plus(self) == Take(self.nodes, self.f + 1)
\* self.nodes[:self.f]
target_nodes(self) == Take(self.nodes, self.f)

\* self.nodes[self.f:self.configs.number_of_nodes]
honest_nodes(self) == Drop(Take(self.nodes, self.configs.number_of_nodes), self.f)

\* self.nodes[self.configs.number_of_nodes:]
twin_nodes(self) == Drop(self.nodes, self.configs.number_of_nodes)

get_twin_next(self, node) == self.nodes[node + 2]
\* assert node in target_nodes; self.nodes[number_of_nodes + node]
get_twin(self, node) == self.nodes[self.configs.number_of_nodes + node + 1]

\* one term of the closed form: (-1)**i * C(k, i) * (k-i)**n
STerm(n, k, i) ==
    (IF i % 2 = 0 THEN 1 ELSE -1)
    * ((factorial(k) \div factorial(i)) \div factorial(k - i))
    * Pow(k - i, n)

RECURSIVE SSum(_, _, _)
SSum(n, k, i) == IF i < 0 THEN 0 ELSE STerm(n, k, i) + SSum(n, k, i - 1)

S_ordered(n, k) == SSum(n, k, k)
\* Generator.S: sum(S) // f(k), Stirling number of the second kind
S(n, k) == SSum(n, k, k) \div factorial(k)

\* stirling2 with the k copies of tmp shared instead of deep-copied: every
\* base partition receives n-1 in each of its k blocks.
RECURSIVE stirling2_shared(_, _)
stirling2_shared(n, k) ==
    IF k = 1 THEN << << Range0(n) >> >>
    ELSE IF k = n THEN << [x \in 1..n |-> << x - 1 >>] >>
    ELSE LET a   == stirling2_shared(n - 1, k - 1)
             tmp == stirling2_shared(n - 1, k)
             s_n1_k1  == [i \in 1..Len(a) |-> Append(a[i], << n - 1 >>)]
             k_s_n1_k == [i \in 1..(Len(tmp) * k) |->
                            [b \in 1..k |->
                                Append(tmp[((i - 1) % Len(tmp)) + 1][b], n - 1)]]
         IN  s_n1_k1 \o k_s_n1_k

\* make_partitions.stirling2(n, k), for n > 0 and k > 0
RECURSIVE stirling2(_, _)
stirling2(n, k) ==
    IF k = 1 THEN << << Range0(n) >> >>
    ELSE IF k = n THEN << [x \in 1..n |-> << x - 1 >>] >>
    ELSE LET a   == stirling2(n - 1, k - 1)
             tmp == stirling2(n - 1, k)
             s_n1_k1  == [i \in 1..Len(a) |-> Append(a[i], << n - 1 >>)]
             \* k deep copies of tmp; copy i gets n-1 in block i // len(tmp)
             k_s_n1_k == [i \in 1..(Len(tmp) * k) |->
                            [tmp[((i - 1) % Len(tmp)) + 1]
                                EXCEPT ![((i - 1) \div Len(tmp)) + 1] =
                                    Append(@, n - 1)]]
         IN  s_n1_k1 \o k_s_n1_k

\* Generator.make_partitions
make_partitions(self) ==
    stirling2(Len(self.nodes), self.configs.number_of_partitions)

testcases_length_no_leaders(self) ==
    Pow(S(Len(self.nodes), self.configs.number_of_partitions),
        self.configs.number_of_rounds)
\* Generator.testcases_length
testcases_length(self) ==
    Pow(S(Len(self.nodes), self.configs.number_of_partitions)
            * Len(target_nodes(self)),
        self.configs.number_of_rounds)

\* Generator.combine_partitions_with_leaders, as the list it yields
combine_partitions_with_leaders(self, partitions) ==
    LET t == target_nodes(self)
    IN  [i \in 1..(Len(partitions) * Len(t)) |->
            << t[((i - 1) % Len(t)) + 1],
               partitions[((i - 1) \div Len(t)) + 1] >>]

\* itertools.product(scenarios, repeat=repeat), as the list it yields
RECURSIVE product(_, _)
product(scenarios, repeat) ==
    IF repeat = 0 THEN << << >> >>
    ELSE LET result == product(scenarios, repeat - 1)
             L == Len(scenarios)
         IN  [i \in 1..(Len(result) * L) |->
                Append(result[((i - 1) \div L) + 1],
                       scenarios[((i - 1) % L) + 1])]

\* Generator.combine_scenarios_with_rounds
combine_scenarios_with_rounds(self, scenarios) ==
    product(scenarios, self.configs.number_of_rounds)

distribute_skip(n, iterable) ==
    [index \in 0..(n - 1) |->
        [c \in 1..(IF Len(iterable) > index + 1
                   THEN ((Len(iterable) - index - 2) \div n) + 1 ELSE 0) |->
            iterable[index + 1 + (c - 1) * n + 1]]]
\* more_itertools.distribute(n, iterable) for n >= 1: child index is
\* islice(it, index, None, n)
distribute(n, iterable) ==
    [index \in 0..(n - 1) |->
        [c \in 1..(IF Len(iterable) > index
                   THEN ((Len(iterable) - index - 1) \div n) + 1 ELSE 0) |->
            iterable[index + (c - 1) * n + 1]]]

\* the default filter, bool(testcase): a non-empty tuple is accepted
filter(x) == Len(x) > 0

\* Format.make: the record's fields (the two dicts as functions on rounds)
Format_make(self, testcase) ==
    [ number_of_rounds     |-> self.configs.number_of_rounds,
      number_of_nodes      |-> self.configs.number_of_nodes,
      number_of_partitions |-> self.configs.number_of_partitions,
      twins_round_proposers_idx |->
          [round_number \in 0..(Len(testcase) - 1) |->
              LET leader == testcase[round_number + 1][1]
              IN  IF In(leader, target_nodes(self))
                  THEN << leader, get_twin(self, leader) >>
                  ELSE << leader >>],
      round_partitions_idx |->
          [round_number \in 0..(Len(testcase) - 1) |->
              testcase[round_number + 1][2]] ]

\* str(n) for n >= 0, as its list of decimal digits
RECURSIVE str(_)
str(n) ==
    LET digit(d) == << "0", "1", "2", "3", "4", "5", "6", "7", "8", "9" >>[d + 1]
    IN  IF n < 10 THEN << digit(n) >>
        ELSE Append(str(n \div 10), digit(n % 10))

filename_no_worker(machine_index, process_id, i, dryrun) ==
    LET basename == << "testcase-" >> \o str(machine_index)
    IN  IF dryrun THEN << "tmp-" >> \o basename
        ELSE basename \o << "-" >> \o str(i)
\* _print: basename and filename of the i-th chunk
filename(machine_index, process_id, i, dryrun) ==
    LET basename == << "testcase-" >> \o str(machine_index)
                        \o << "-" >> \o str(process_id)
    IN  IF dryrun THEN << "tmp-" >> \o basename
        ELSE basename \o << "-" >> \o str(i)

\* self.folder_path during run(): the configured directory, or the
\* TemporaryDirectory of this run when dryrun
folder_path(machine_index, dryrun) ==
    IF dryrun THEN [dir |-> "tmp", of |-> machine_index]
    ELSE [dir |-> "./", of |-> 0]

\* ------------------------------------------------------ the machines
Machines == 0..MaxMachines

Inputs ==
    [ number_of_nodes      : 0..MaxNodes,
      number_of_partitions : 0..MaxPartitions,
      number_of_rounds     : 0..MaxRounds,
      testcases_per_file   : 0..MaxPerFile,
      number_of_machines   : 0..MaxMachines,
      workers              : 0..MaxWorkers,
      dryrun               : BOOLEAN ]

\* the constructors accept c on some machine index
Accepted(c) ==
    /\ ConfigsInit(c.number_of_nodes, c.number_of_partitions,
                   c.number_of_rounds) = "ok"
    /\ c.testcases_per_file > 0
    /\ c.number_of_nodes + F(c.number_of_nodes) >= c.number_of_partitions

\* inputs small enough to enumerate
Bounded(c) ==
    /\ c.number_of_machines * c.workers <= MaxProcs
    /\ Accepted(c) =>
          LET self == Generator(c, 1)
          IN  /\ S(Len(self.nodes), self.configs.number_of_partitions)
                    * Len(target_nodes(self)) <= MaxTestcases
              /\ testcases_length(self) <= MaxTestcases

StirIdle == spc = "off" /\ sn = 0 /\ sk = 0 /\ sparts = << >> /\ scursor = 0
FmtIdle  == fpc = "off" /\ fgen = << >> /\ ftestcase = << >> /\ frecord = << >>

GenIdle ==
    /\ cfg = 0
    /\ pc = [m \in Machines |-> "off"]
    /\ enumerated = [m \in Machines |-> FALSE]
    /\ generated = [m \in Machines |-> 0]
    /\ chunks = [m \in Machines |-> << >>]
    /\ worker = [m \in Machines |-> << >>]
    /\ files = << >>
    /\ writes = {}

Init ==
    /\ cfg \in {c \in Inputs : Bounded(c)}
    /\ pc = [m \in Machines |-> "new"]
    /\ enumerated = [m \in Machines |-> FALSE]
    /\ generated = [m \in Machines |-> 0]
    /\ chunks = [m \in Machines |-> << >>]
    /\ worker = [m \in Machines |-> << >>]
    /\ files = << >>
    /\ writes = {}
    /\ StirIdle
    /\ FmtIdle

\* Generator(Configs(nodes, partitions, rounds), ..., machine_index=m, ...)
Construct(m) ==
    /\ pc[m] = "new"
    /\ pc' = [pc EXCEPT ![m] =
                IF ConfigsInit(cfg.number_of_nodes, cfg.number_of_partitions,
                               cfg.number_of_rounds) # "ok"
                THEN "ValueError"
                ELSE IF GeneratorInit(cfg, m) # "ok" THEN "ValueError"
                ELSE "ready"]
    /\ UNCHANGED <<cfg, enumerated, generated, chunks, worker, files, writes>>
    /\ UNCHANGED <<stirVars, fmtVars>>

\* Generator.run up to the start of the worker processes (print's loop)
Run(m) ==
    /\ pc[m] = "ready"
    /\ LET self       == Generator(cfg, m)
           partitions == make_partitions(self)
           scenarios  == combine_partitions_with_leaders(self, partitions)
           testcases  == combine_scenarios_with_rounds(self, scenarios)
           mine       == distribute(self.number_of_machines, testcases)
                            [self.machine_index - 1]
       IN  /\ enumerated' = [enumerated EXCEPT ![m] = TRUE]
           /\ generated' = [generated EXCEPT ![m] = Len(testcases)]
           /\ IF cfg.workers < 1
              THEN \* distribute(workers, testcases) raises ValueError
                   /\ pc' = [pc EXCEPT ![m] = "RunValueError"]
                   /\ UNCHANGED <<chunks, worker>>
              ELSE /\ pc' = [pc EXCEPT ![m] = "printing"]
                   /\ chunks' = [chunks EXCEPT ![m] =
                                    distribute(cfg.workers, mine)]
                   /\ worker' = [worker EXCEPT ![m] =
                                    [i \in 0..(cfg.workers - 1) |->
                                        [ state     |-> "running",
                                          testcases |-> distribute(cfg.workers, mine)[i],
                                          i         |-> 0 ]]]
    /\ UNCHANGED <<cfg, files, writes>>
    /\ UNCHANGED <<stirVars, fmtVars>>

\* _print: one iteration of the loop over ichunked(testcases, num_of_chunks)
Write(m, process_id) ==
    /\ pc[m] = "printing"
    /\ process_id \in DOMAIN worker[m]
    /\ worker[m][process_id].state = "running"
    /\ worker[m][process_id].testcases # << >>
    /\ LET self  == Generator(cfg, m)
           me    == worker[m][process_id]
           num_of_chunks == ceil(testcases_length(self), self.testcases_per_file)
           chunk == Take(me.testcases, num_of_chunks)
           kept  == SelectSeq(chunk, filter)
           data  == [x \in 1..Len(kept) |-> Format_make(self, kept[x])]
           path  == [ folder |-> folder_path(m, cfg.dryrun),
                      name   |-> filename(self.machine_index, process_id,
                                          me.i, cfg.dryrun) ]
       IN  /\ files' = [p \in DOMAIN files \cup {path} |->
                            IF p = path THEN data ELSE files[p]]
           /\ writes' = writes \cup
                  {[ machine |-> m, process_id |-> process_id, i |-> me.i,
                     path |-> path, records |-> Len(data) ]}
           /\ worker' = [worker EXCEPT ![m][process_id] =
                  [ state     |-> "running",
                    testcases |-> Drop(me.testcases, num_of_chunks),
                    i         |-> me.i + 1 ]]
    /\ UNCHANGED <<cfg, pc, enumerated, generated, chunks>>
    /\ UNCHANGED <<stirVars, fmtVars>>

\* _print: open() raises an I/O error and the process terminates abnormally
Fail(m, process_id) ==
    /\ pc[m] = "printing"
    /\ process_id \in DOMAIN worker[m]
    /\ worker[m][process_id].state = "running"
    /\ worker[m][process_id].testcases # << >>
    /\ worker' = [worker EXCEPT ![m][process_id].state = "failed"]
    /\ UNCHANGED <<cfg, pc, enumerated, generated, chunks, files, writes>>
    /\ UNCHANGED <<stirVars, fmtVars>>

\* _print: the chunks are exhausted and the process exits
Exit(m, process_id) ==
    /\ pc[m] = "printing"
    /\ process_id \in DOMAIN worker[m]
    /\ worker[m][process_id].state = "running"
    /\ worker[m][process_id].testcases = << >>
    /\ worker' = [worker EXCEPT ![m][process_id].state = "exited"]
    /\ UNCHANGED <<cfg, pc, enumerated, generated, chunks, files, writes>>
    /\ UNCHANGED <<stirVars, fmtVars>>

\* print: [p.join() for p in jobs]; run: the TemporaryDirectory is removed
\* when dryrun, then 'Finished.' is logged and run returns
Join(m) ==
    /\ pc[m] = "printing"
    /\ \A w \in DOMAIN worker[m] : worker[m][w].state # "running"
    /\ pc' = [pc EXCEPT ![m] = "finished"]
    /\ files' = IF cfg.dryrun
                THEN [p \in {q \in DOMAIN files :
                                q.folder # folder_path(m, TRUE)} |-> files[p]]
                ELSE files
    /\ UNCHANGED <<cfg, enumerated, generated, chunks, worker, writes>>
    /\ UNCHANGED <<stirVars, fmtVars>>

Next ==
    \/ \E m \in Machines : Construct(m)
    \/ \E m \in Machines : Run(m)
    \/ \E m \in Machines, w \in 0..(MaxWorkers - 1) : Write(m, w)
    \/ \E m \in Machines, w \in 0..(MaxWorkers - 1) : Fail(m, w)
    \/ \E m \in Machines, w \in 0..(MaxWorkers - 1) : Exit(m, w)
    \/ \E m \in Machines : Join(m)

Spec == Init /\ [][Next]_vars

\* ------------------------------------------- stirling2 called on its own
InitStirling ==
    /\ GenIdle
    /\ FmtIdle
    /\ spc = "call"
    /\ sn \in 1..MaxN
    /\ sk \in 1..sn
    /\ sparts = << >>
    /\ scursor = 0

\* partitions = stirling2(n, k)
Stirling2Call ==
    /\ spc = "call"
    /\ spc' = "scan"
    /\ sparts' = stirling2(sn, sk)
    /\ scursor' = 1
    /\ UNCHANGED <<sn, sk>>
    /\ UNCHANGED <<genVars, fmtVars>>

\* for partition in partitions: the next partition
Stirling2Scan ==
    /\ spc = "scan"
    /\ scursor < Len(sparts)
    /\ scursor' = scursor + 1
    /\ UNCHANGED <<spc, sn, sk, sparts>>
    /\ UNCHANGED <<genVars, fmtVars>>

NextStirling == Stirling2Call \/ Stirling2Scan

SpecStirling == InitStirling /\ [][NextStirling]_vars

\* ----------------------------------------- Format.make called on its own
\* generators with a single partition (k = 1 or k = number of nodes)
FormatGenerators ==
    { Generator([ number_of_nodes |-> n, number_of_partitions |-> k,
                  number_of_rounds |-> r, testcases_per_file |-> 1,
                  number_of_machines |-> 1 ], 1) :
        n \in 1..MaxNodes, k \in 1..(MaxNodes + F(MaxNodes)), r \in 1..MaxRounds }

InitFormat ==
    /\ GenIdle
    /\ StirIdle
    /\ fpc = "call"
    /\ fgen \in { g \in FormatGenerators :
                    g.configs.number_of_partitions \in {1, Len(g.nodes)} }
    /\ ftestcase \in [ 1..fgen.configs.number_of_rounds ->
                        { << leader, make_partitions(fgen)[1] >> :
                            leader \in 0..(Len(fgen.nodes) - 1) } ]
    /\ frecord = << >>

\* Format.make(generator, testcase)
FormatMake ==
    /\ fpc = "call"
    /\ fpc' = "done"
    /\ frecord' = Format_make(fgen, ftestcase)
    /\ UNCHANGED <<fgen, ftestcase>>
    /\ UNCHANGED <<genVars, stirVars>>

NextFormat == FormatMake

SpecFormat == InitFormat /\ [][NextFormat]_vars

\* ------------------------------------------------------------ the claims
\* the machines the configuration launches validly
Fleet == 1..cfg.number_of_machines

\* every machine of the fleet has handed its share to its workers
AllStarted ==
    /\ cfg.number_of_machines >= 1
    /\ cfg.workers >= 1
    /\ \A m \in Fleet : pc[m] \in {"printing", "finished"}

\* the full enumeration of testcases of the configuration
FullSequence ==
    LET self == Generator(cfg, 1)
    IN  combine_scenarios_with_rounds(self,
            combine_partitions_with_leaders(self, make_partitions(self)))

\* the places (machine, worker, rank) where testcase x was handed
Handed(x) ==
    { h \in { <<m, w, j>> : m \in Fleet, w \in 0..(cfg.workers - 1),
                            j \in 1..MaxTestcases } :
        /\ h[3] <= Len(chunks[h[1]][h[2]])
        /\ chunks[h[1]][h[2]][h[3]] = x }

\* the number of testcases handed to all (machine, worker) pairs together
RECURSIVE HandedCount(_, _)
HandedCount(m, w) ==
    IF m < 1 THEN 0
    ELSE IF w < 0 THEN HandedCount(m - 1, cfg.workers - 1)
    ELSE Len(chunks[m][w]) + HandedCount(m, w - 1)

\* C1: once all machines 1..numberOfMachines have distributed their share to
\* their workers, every testcase of the full enumeration has been handed to
\* exactly one (machine, worker) pair, and nothing else has been handed out.
C1_ExactlyOnce ==
    AllStarted =>
        LET full == FullSequence
        IN  /\ \A p \in 1..Len(full) : Cardinality(Handed(full[p])) = 1
            /\ HandedCount(cfg.number_of_machines, cfg.workers - 1) = Len(full)

C1_Witness ==
    /\ AllStarted
    /\ cfg.number_of_machines >= 2
    /\ cfg.workers >= 2
    /\ Len(FullSequence) >= 5
    /\ \A m \in Fleet : \A w \in DOMAIN chunks[m] : chunks[m][w] # << >>

\* C2: every file written holds at most testcases_per_file records.
C2_FileBound ==
    /\ \A p \in DOMAIN files : Len(files[p]) <= cfg.testcases_per_file
    /\ \A e \in writes : e.records <= cfg.testcases_per_file

\* the blocks of partition P, as sets
BlockSet(P, b) == { P[b][x] : x \in 1..Len(P[b]) }

\* C3: every partition returned by stirling2(n, k), n >= k >= 1, has exactly k
\* blocks, none empty, pairwise disjoint, with union {0, ..., n-1}.
C3_Partitions ==
    spc = "scan" =>
        \A i \in 1..Len(sparts) :
            LET P == sparts[i]
            IN  /\ Len(P) = sk
                /\ \A b \in 1..Len(P) : P[b] # << >>
                /\ \A b, c \in 1..Len(P) :
                       b # c => BlockSet(P, b) \cap BlockSet(P, c) = {}
                /\ UNION { BlockSet(P, b) : b \in 1..Len(P) } = 0..(sn - 1)

C3_Witness ==
    /\ spc = "scan"
    /\ sn >= 5
    /\ sk >= 2
    /\ sk < sn
    /\ scursor = Len(sparts)

C5_Forecast ==
    \A m \in Machines :
        enumerated[m] => generated[m] = testcases_length(Generator(cfg, m))

C5_Witness ==
    \E m \in Machines :
        /\ enumerated[m]
        /\ generated[m] >= 4
        /\ cfg.number_of_rounds >= 2
        /\ F(cfg.number_of_nodes) >= 2

\* a configuration error in the arguments of machine m
ConfigurationError(m) ==
    \/ cfg.number_of_nodes <= 0
    \/ cfg.number_of_partitions <= 0
    \/ cfg.number_of_rounds <= 0
    \/ cfg.number_of_nodes + F(cfg.number_of_nodes) < cfg.number_of_partitions
    \/ m < 1
    \/ m > cfg.number_of_machines
    \/ cfg.testcases_per_file <= 0
    \/ cfg.workers <= 0

\* C6: a run whose arguments hold a configuration error never reaches
\* make_partitions.
C6_Eager == \A m \in Machines : ConfigurationError(m) => ~ enumerated[m]

\* C7: a run one of whose workers failed does not finish normally.
C7_FailedRun ==
    \A m \in Machines :
        pc[m] = "finished" =>
            \A w \in DOMAIN worker[m] : worker[m][w].state # "failed"

\* C8: in the record made from a testcase, every round r is a key of the
\* leader map; a leader in the target range [0, f) is listed as
\* [leader, numberOfNodes + leader], any other leader as [leader].
C8_Leaders ==
    fpc = "done" =>
        \A r \in 0..(fgen.configs.number_of_rounds - 1) :
            /\ r \in DOMAIN frecord.twins_round_proposers_idx
            /\ LET leader == ftestcase[r + 1][1]
               IN  frecord.twins_round_proposers_idx[r] =
                      IF leader >= 0 /\ leader < F(fgen.configs.number_of_nodes)
                      THEN << leader, fgen.configs.number_of_nodes + leader >>
                      ELSE << leader >>

C8_Witness ==
    /\ fpc = "done"
    /\ fgen.configs.number_of_rounds >= 2
    /\ Len(frecord.twins_round_proposers_idx[0]) = 2
    /\ frecord.twins_round_proposers_idx[0][1] = 1
    /\ Len(frecord.twins_round_proposers_idx[1]) = 1

\* C9: in a real run no two file writes go to the same file name, and the
\* sequence numbers of each worker's files are 0, 1, 2, ... without gaps.
C9_DistinctFiles ==
    ~ cfg.dryrun =>
        /\ \A e1, e2 \in writes :
               e1.path = e2.path =>
                   /\ e1.machine = e2.machine
                   /\ e1.process_id = e2.process_id
                   /\ e1.i = e2.i
        /\ \A e \in writes : \A j \in 0..(e.i - 1) :
               \E d \in writes :
                   /\ d.machine = e.machine
                   /\ d.process_id = e.process_id
                   /\ d.i = j
        /\ \A m \in Machines : \A w \in DOMAIN worker[m] :
               worker[m][w].i =
                   Cardinality({ e \in writes :
                                   e.machine = m /\ e.process_id = w })

C9_Witness ==
    /\ ~ cfg.dryrun
    /\ \E e1, e2 \in writes :
           /\ e1.i = 1
           /\ e2.i = 1
           /\ e1.machine # e2.machine
    /\ \A m \in Fleet : \E w \in DOMAIN worker[m] :
           worker[m][w].state = "running"

\* C10: with numberOfNodes <= 3 accepted by the constructors (and workers >= 1),
\* the forecast is 0, nothing is enumerated or handed to a worker, no file is
\* written, and the run raises no error.
C10_NoTargets ==
    \A m \in Machines :
        ( /\ cfg.number_of_nodes <= 3
          /\ cfg.workers >= 1
          /\ pc[m] \in {"ready", "RunValueError", "printing", "finished"} )
        =>  /\ testcases_length(Generator(cfg, m)) = 0
            /\ generated[m] = 0
            /\ pc[m] # "RunValueError"
            /\ \A w \in DOMAIN chunks[m] : chunks[m][w] = << >>
            /\ \A w \in DOMAIN worker[m] : worker[m][w].state # "failed"
            /\ writes = {}
            /\ DOMAIN files = {}

C10_Witness ==
    \E m \in Machines :
        /\ cfg.number_of_nodes <= 3
        /\ cfg.workers >= 2
        /\ pc[m] = "finished"

====
